---- MODULE Spec2Model ----
(***************************************************************************)
(* Model of src/src/sgmvfi/Trainer_x4k.py: class Model, the training and   *)
(* inference wrapper around the frame-interpolation network.               *)
(*                                                                         *)
(* Strings are modelled as sequences of atomic pieces, e.g. the key        *)
(* "module.gmflow.weight" is <<"module.", "gmflow.", "weight">>.  The      *)
(* pieces are chosen so that a substring test for "module.", "attn_mask"   *)
(* or "HW" is a test for the presence of that piece.                       *)
(* A Python dict read from a checkpoint is a sequence of <<key, value>>    *)
(* pairs with distinct keys (dicts iterate in insertion order); a dict     *)
(* that is only looked up is a function from keys to values.               *)
(* A tensor is a nested sequence, one level per dimension; integers stand  *)
(* for the floating point values.                                          *)
(***************************************************************************)
EXTENDS Integers, Sequences, FiniteSets, TLC

VARIABLES procs, files, pc, val, reqgrad, grad, lr, training, wrapped,
          steps, last

vars == <<procs, files, pc, val, reqgrad, grad, lr, training, wrapped,
          steps, last>>

\* ------------------------------------------------------------- bounds
\* A distributed run has the local ranks 0..MaxRank.
MaxRank == 1
\* At most MaxSteps optimizer steps per process.
MaxSteps == 2
\* Batch sizes 1..MaxBatch of the frame pairs given to inference.
MaxBatch == 2
\* Raw checkpoint mappings of up to MaxRawLen entries are given to convert.
MaxRawLen == 3

\* ---------------------------------------------------- program constants
\* AdamW(..., lr=2e-4, ...): the initial learning rate, in units of 1e-4.
InitLr == 2

\* ------------------------------------------------------------ helpers
Max(S) == CHOOSE x \in S : \A y \in S : y <= x

Abs(x) == IF x < 0 THEN -x ELSE x

Sgn(x) == IF x < 0 THEN -1 ELSE IF x > 0 THEN 1 ELSE 0

RECURSIVE SumSeq(_)
SumSeq(s) == IF s = <<>> THEN 0 ELSE Head(s) + SumSeq(Tail(s))

\* k in d, for a dict d held as pairs
DictKeys(d) == {d[i][1] : i \in DOMAIN d}

\* d[k], for a dict d held as pairs
DictGet(d, k) == d[CHOOSE i \in DOMAIN d : d[i][1] = k][2]

\* "piece in key" for one of the atomic pieces
Contains(key, piece) == \E i \in DOMAIN key : key[i] = piece

\* key.replace(piece, ""): every occurrence is removed
Replace(key, piece) == SelectSeq(key, LAMBDA t : t # piece)

\* --------------------------------------------------------- the network
\* The parameters of self.net, one per sub-branch: the four branches that
\* __init__ names, and "rest" for every parameter outside them.
Branches == {"gmflow", "feature_bone", "block", "unet", "rest"}

\* named_parameters() order of self.net
BranchOrder == <<"feature_bone", "block", "unet", "gmflow", "rest">>

\* The qualified name of each branch's parameter in self.net.state_dict().
ParamName ==
    [gmflow |-> <<"gmflow.", "weight">>,
     feature_bone |-> <<"feature_bone.", "weight">>,
     block |-> <<"block.", "weight">>,
     unet |-> <<"unet.", "weight">>,
     rest |-> <<"rest.", "weight">>]

\* self.net.gmflow.parameters()
GmflowBranches == {"gmflow"}

\* a variant that forgets self.net.unet
LocalBranchesNoUnet == {"feature_bone", "block"}

\* self.net.feature_bone / block / unet .parameters()
LocalBranches == {"feature_bone", "block", "unet"}

\* The key of branch b in the state_dict of process p's self.net: DDP holds
\* the network as its attribute "module", which prefixes every key.
StateDictKey(isWrapped, b) ==
    IF isWrapped THEN <<"module.">> \o ParamName[b] ELSE ParamName[b]

\* self.net.state_dict()
StateDict(isWrapped, vals) ==
    [i \in DOMAIN BranchOrder |->
        <<StateDictKey(isWrapped, BranchOrder[i]), vals[BranchOrder[i]]>>]

\* self.net.load_state_dict(dict, strict=False): every parameter whose key
\* is in dict is overwritten in place, the others are left alone, keys of
\* dict the network does not have are ignored.
LoadStateDict(isWrapped, vals, dict) ==
    [b \in Branches |->
        IF StateDictKey(isWrapped, b) \in DOMAIN dict
        THEN dict[StateDictKey(isWrapped, b)]
        ELSE vals[b]]

\* The keys of dict that load_state_dict assigns.
AssignedKeys(isWrapped, dict) ==
    {StateDictKey(isWrapped, b) : b \in Branches} \cap DOMAIN dict

\* load_model.convert: the dict comprehension; a later entry overwrites an
\* earlier one with the same new key.
convert(param) ==
    LET kept == {i \in DOMAIN param :
                    /\ Contains(param[i][1], "module.")
                    /\ ~Contains(param[i][1], "attn_mask")
                    /\ ~Contains(param[i][1], "HW")}
        new(i) == Replace(param[i][1], "module.")
    IN  [nk \in {new(i) : i \in kept} |->
            param[Max({i \in kept : new(i) = nk})][2]]

\* ------------------------------------------------------------- tensors
\* The tensor t of n dimensions with every element computed (a function
\* expression is otherwise computed anew at each application).
RECURSIVE Tensor(_, _)
Tensor(t, n) ==
    IF n = 0 THEN t
    ELSE SubSeq([i \in DOMAIN t |-> Tensor(t[i], n - 1)], 1, Len(t))

\* t.flip(d)
RECURSIVE Flip(_, _)
Flip(t, d) ==
    IF d = 0 THEN [i \in 1 .. Len(t) |-> t[Len(t) + 1 - i]]
    ELSE [i \in DOMAIN t |-> Flip(t[i], d - 1)]

\* torch.cat((a, b), d)
RECURSIVE Cat(_, _, _)
Cat(a, b, d) ==
    IF d = 0 THEN a \o b
    ELSE [i \in DOMAIN a |-> Cat(a[i], b[i], d - 1)]

\* a + b for tensors of n dimensions and equal shape
RECURSIVE AddT(_, _, _)
AddT(a, b, n) ==
    IF n = 0 THEN a + b
    ELSE [i \in DOMAIN a |-> AddT(a[i], b[i], n - 1)]

\* t * c
RECURSIVE MulT(_, _, _)
MulT(t, c, n) ==
    IF n = 0 THEN t * c
    ELSE [i \in DOMAIN t |-> MulT(t[i], c, n - 1)]

\* t / c; the network's outputs are even, so that halving is exact
RECURSIVE DivT(_, _, _)
DivT(t, c, n) ==
    IF n = 0 THEN t \div c
    ELSE [i \in DOMAIN t |-> DivT(t[i], c, n - 1)]

\* t.unsqueeze(0)
Unsqueeze(t) == <<t>>

\* The elements of a tensor of n dimensions, in storage order.
RECURSIVE Flatten(_, _)
Flatten(t, n) ==
    IF n = 0 THEN <<t>>
    ELSE IF t = <<>> THEN <<>>
    ELSE Flatten(Head(t), n - 1) \o Flatten(Tail(t), n)

Clamp(i, lo, hi) == IF i < lo THEN lo ELSE IF i > hi THEN hi ELSE i

\* One channel (H x W) resampled by the factor 1/2: with bilinear weights
\* and align_corners=False every output pixel is the mean of a 2 x 2 block.
HalfChannel(c) ==
    [h \in 1 .. (Len(c) \div 2) |->
        [w \in 1 .. (Len(c[1]) \div 2) |->
            (c[2 * h - 1][2 * w - 1] + c[2 * h - 1][2 * w]
             + c[2 * h][2 * w - 1] + c[2 * h][2 * w]) \div 4]]

\* One channel resampled by the factor 2: output pixel d (from 0) reads the
\* source position d/2 - 1/4, i.e. weight 3/4 on the nearer and 1/4 on the
\* farther of its two neighbours, indices clamped to the image.
DoubleChannel(c) ==
    LET H == Len(c)
        W == Len(c[1])
        near(d) == d \div 2
        far(d) == IF d % 2 = 0 THEN (d \div 2) - 1 ELSE (d \div 2) + 1
        px(i, j) == c[Clamp(i, 0, H - 1) + 1][Clamp(j, 0, W - 1) + 1]
    IN  [h \in 1 .. 2 * H |->
            [w \in 1 .. 2 * W |->
                (9 * px(near(h - 1), near(w - 1)) + 3 * px(near(h - 1), far(w - 1))
                 + 3 * px(far(h - 1), near(w - 1)) + px(far(h - 1), far(w - 1)))
                \div 16]]

\* F.interpolate(t, scale_factor=num/den, mode="bilinear",
\* align_corners=False) of a B x C x H x W tensor, for the factors 1, 1/2, 2
Interpolate(t, num, den) ==
    IF num = den THEN t
    ELSE Tensor([i \in DOMAIN t |->
                   [c \in DOMAIN t[i] |->
                       IF 2 * num = den THEN HalfChannel(t[i][c])
                       ELSE DoubleChannel(t[i][c])]], 4)

\* -------------------------------------------- the network's interface
\* The network itself is an external collaborator.  Its stand-in maps each
\* sample of a batch on its own (no batch statistics), is not flip
\* equivariant (PosW weighs the pixel positions differently), has even
\* outputs, and depends on every parameter.
PosW(h, w) == h + 2 * (w - 1)

\* self.net.calculate_flow(imgs, timestep) -> flow, mask   (B x 1 x h x w)
calculate_flow(vals, imgs) ==
    [flow |-> [i \in DOMAIN imgs |->
                 << [h \in DOMAIN imgs[i][1] |->
                      [w \in DOMAIN imgs[i][1][h] |->
                          imgs[i][1][h][w] - imgs[i][2][h][w]
                          + vals["gmflow"] + vals["rest"]]] >>],
     mask |-> [i \in DOMAIN imgs |->
                 << [h \in DOMAIN imgs[i][1] |->
                      [w \in DOMAIN imgs[i][1][h] |->
                          PosW(h, w) * imgs[i][2][h][w]]] >>]]

\* self.net.coraseWarp_and_Refine(imgs, flow, mask) -> pred (B x 1 x H x W)
coraseWarp_and_Refine(vals, imgs, flow, mask) ==
    [i \in DOMAIN imgs |->
        << [h \in DOMAIN imgs[i][1] |->
             [w \in DOMAIN imgs[i][1][h] |->
                 2 * (PosW(h, w) * imgs[i][1][h][w] + flow[i][1][h][w]
                      + mask[i][1][h][w] + vals["feature_bone"]
                      + vals["block"] + vals["unet"])]] >>]

\* The intermediate "merged" predictions: one, from the local branch alone.
Merged(vals, imgs) ==
    << [i \in DOMAIN imgs |->
         << [h \in DOMAIN imgs[i][1] |->
              [w \in DOMAIN imgs[i][1][h] |->
                  2 * (imgs[i][1][h][w] + vals["feature_bone"]
                       + vals["block"])]] >>] >>

\* self.net(imgs, timestep) -> flow, mask, merged, pred, flow_matching
NetForward(vals, imgs) ==
    LET fm == calculate_flow(vals, imgs)
    IN  [flow |-> fm.flow, mask |-> fm.mask, merged |-> Merged(vals, imgs),
         pred |-> Tensor(coraseWarp_and_Refine(vals, imgs, fm.flow, fm.mask), 4)]

\* The sum over the elements of |a - b|, or of its derivative sign(a - b)
\* when deriv, for tensors of n dimensions.
RECURSIVE SumDiff(_, _, _, _)
SumDiff(deriv, a, b, n) ==
    IF n = 0 THEN (IF deriv THEN Sgn(a - b) ELSE Abs(a - b))
    ELSE SumSeq([i \in DOMAIN a |-> SumDiff(deriv, a[i], b[i], n - 1)])

\* self.lap(a, b): a loss per sample of the batch
Lap(a, b) == [i \in DOMAIN a |-> SumDiff(FALSE, a[i], b[i], 3)]

\* t.mean() of a loss per sample
Mean(t) == SumSeq(t) \div Len(t)

\* d Lap(a, b).mean() / d a, summed over the pixels (every pixel of the
\* stand-in has derivative 2 in each parameter it depends on)
LapGrad(a, b) == Mean([i \in DOMAIN a |-> 2 * SumDiff(TRUE, a[i], b[i], 3)])

\* d loss_l1 / d (the parameter of branch b), from the graph fwd that the
\* forward pass built
GradOf(b, fwd, gt) ==
    LapGrad(fwd.pred, gt)
    + (IF b \in {"feature_bone", "block"}
       THEN SumSeq([m \in DOMAIN fwd.merged |-> LapGrad(fwd.merged[m], gt)])
            \div 2
       ELSE 0)

\* ------------------------------------------------------------- storage
\* MODEL_CONFIG['LOGNAME'], the name save_model and load_model default to
LogName == "LOGNAME"

\* f'log/{name}/ckpt/{name}.pkl'
CkptPath(name) == name

\* f'log/{self.name}/ckpt/{self.name}_best.pkl'
BestPath == "LOGNAME_best"

\* './pretrained/gmflow_sintel-0c07dcb3.pth'
GmflowPath == "gmflow_sintel"

Paths == {GmflowPath, CkptPath("ours-local"), CkptPath(LogName), BestPath}

NoFile == [exists |-> FALSE, epoch |-> 0, model |-> <<>>, optimizer |-> 0]

\* The GMFlow checkpoint: keys as in self.net.gmflow.state_dict(), and one
\* key the sub-network does not have.
GmflowFile ==
    [exists |-> TRUE, epoch |-> 0,
     model |-> << <<(<<"weight">>), 7>>, <<(<<"upsampler.", "weight">>), 9>> >>,
     optimizer |-> 0]

\* The local-branch checkpoint 'ours-local', saved from a DDP-wrapped
\* network: every key carries "module.", and it holds cached buffers
\* (attn_mask, HW) beside the parameters.
LocalFile ==
    [exists |-> TRUE, epoch |-> 0,
     model |-> << <<(<<"module.", "feature_bone.", "weight">>), 8>>,
                  <<(<<"module.", "block.", "weight">>), 8>>,
                  <<(<<"module.", "block.", "attn_mask">>), 9>>,
                  <<(<<"module.", "block.", "HW">>), 9>>,
                  <<(<<"module.", "unet.", "weight">>), 8>> >>,
     optimizer |-> 0]

\* torch.save({'epoch':..., 'model': state_dict, 'optimizer': ...}, path)
SavedRecord(p, epoch) ==
    [exists |-> TRUE, epoch |-> epoch,
     model |-> StateDict(wrapped[p], val[p]),
     optimizer |-> lr[p]]

\* -------------------------------------------------------------- ranks
\* local_rank of the one process of a run without distribution
NoRank == -1

DistRanks == 0 .. MaxRank

Epochs == {0}

\* The value the random initialisation gives the parameters of process p:
\* one of its own per process, and none that a checkpoint holds.
InitValue(p) == p + 1

\* p.grad is None
None == <<>>

TypeOK ==
    /\ procs \in {{NoRank}, DistRanks}
    /\ DOMAIN files = Paths
    /\ pc \in [procs -> {"new", "failed", "wrapping", "ready", "backward"}]
    /\ reqgrad \in [procs -> [Branches -> BOOLEAN]]
    /\ training \in [procs -> BOOLEAN]
    /\ wrapped \in [procs -> BOOLEAN]
    /\ steps \in [procs -> 0 .. MaxSteps]

Init ==
    /\ procs \in {{NoRank}, DistRanks}
    /\ \E g \in {NoFile, GmflowFile}, l \in {NoFile, LocalFile} :
          files = [f \in Paths |->
                     IF f = GmflowPath THEN g
                     ELSE IF f = CkptPath("ours-local") THEN l
                     ELSE NoFile]
    /\ pc = [p \in procs |-> "new"]
    /\ val = [p \in procs |-> [b \in Branches |-> InitValue(p)]]
    /\ reqgrad = [p \in procs |-> [b \in Branches |-> TRUE]]
    /\ grad = [p \in procs |-> [b \in Branches |-> None]]
    /\ lr = [p \in procs |-> InitLr]
    /\ training = [p \in procs |-> TRUE]
    /\ wrapped = [p \in procs |-> FALSE]
    /\ steps = [p \in procs |-> 0]
    /\ last = [op |-> "none"]

\* ------------------------------------------------------- construction
\* lines 21-25: the GMFlow checkpoint restricted to the keys of
\* self.net.gmflow.state_dict(), loaded into self.net.gmflow.
LoadGmflow(vals, ckpt) ==
    LET model_dict == {Tail(ParamName[b]) : b \in GmflowBranches}
        items == ckpt.model
        partial_dict ==
            [k \in {k \in DictKeys(items) : k \in model_dict} |->
                DictGet(items, k)]
    IN  [b \in Branches |->
            IF b \in GmflowBranches /\ Tail(ParamName[b]) \in DOMAIN partial_dict
            THEN partial_dict[Tail(ParamName[b])]
            ELSE vals[b]]

\* for param in ...parameters(): param.requires_grad = False
Freeze(flags, branches) ==
    [b \in Branches |-> IF b \in branches THEN FALSE ELSE flags[b]]

\* a load_model that reads the checkpoint whatever the rank
LoadModelReadsAnyRank(rank) == TRUE

\* load_model, line 65: only rank <= 0 reads the checkpoint
LoadModelReads(rank) == rank <= 0

\* load_model(name, rank) on process p: the name it reads (self.name when
\* None is given, written "" here), whether it raises, what is assigned.
LoadModelName(name) == IF name = "" THEN LogName ELSE name

LoadModelRaises(name, rank) ==
    LoadModelReads(rank) /\ ~files[CkptPath(LoadModelName(name))].exists

LoadModelDict(name) == convert(files[CkptPath(LoadModelName(name))].model)

LoadModelVals(isWrapped, vals, name, rank) ==
    IF LoadModelReads(rank)
    THEN LoadStateDict(isWrapped, vals, LoadModelDict(name))
    ELSE vals

\* lines 21-34: the parameters after the two checkpoints are loaded
BuiltVals(p, vals) ==
    LoadModelVals(FALSE, LoadGmflow(vals, files[GmflowPath]), "ours-local", p)

\* lines 26-27 and 36-41: the flags after the two branches are frozen
BuiltFlags(flags) == Freeze(Freeze(flags, GmflowBranches), LocalBranches)

\* Model.__init__ up to the DDP wrap.  torch.load raises when the file is
\* absent and no Model object comes to exist.
Construct(p) ==
    /\ pc[p] = "new"
    /\ IF ~files[GmflowPath].exists \/ LoadModelRaises("ours-local", p)
       THEN /\ pc' = [pc EXCEPT ![p] = "failed"]
            /\ last' = [op |-> "init", p |-> p, raised |-> "IOError"]
            /\ UNCHANGED <<val, reqgrad, lr>>
       ELSE /\ val' = [val EXCEPT ![p] = BuiltVals(p, val[p])]
            /\ reqgrad' = [reqgrad EXCEPT ![p] = BuiltFlags(reqgrad[p])]
            /\ lr' = [lr EXCEPT ![p] = InitLr]
            /\ pc' = [pc EXCEPT ![p] = IF p # NoRank THEN "wrapping" ELSE "ready"]
            /\ last' = [op |-> "init", p |-> p, raised |-> "no"]
    /\ UNCHANGED <<procs, files, grad, training, wrapped, steps>>

\* a DDP constructor without the broadcast
DDPBroadcastNone(p) == val[p]

\* DDP(self.net, ...) on process p: the module's state is broadcast from
\* rank 0 as the wrapper is built.
DDPBroadcast(p) == val[0]

\* line 46: the DDP constructor is a collective: it returns on each process
\* once all processes of the run have entered it.
DDPWrap ==
    /\ procs # {NoRank}
    /\ \A p \in procs : pc[p] = "wrapping"
    /\ val' = [p \in procs |-> DDPBroadcast(p)]
    /\ wrapped' = [p \in procs |-> TRUE]
    /\ pc' = [p \in procs |-> "ready"]
    /\ last' = [op |-> "DDP", p |-> 0]
    /\ UNCHANGED <<procs, files, reqgrad, grad, lr, training, steps>>

\* ------------------------------------------------- simple operations
\* Model.train / Model.eval
SetMode(p, mode) ==
    /\ pc[p] = "ready"
    /\ training' = [training EXCEPT ![p] = mode]
    /\ last' = [op |-> IF mode THEN "train" ELSE "eval", p |-> p]
    /\ UNCHANGED <<procs, files, pc, val, reqgrad, grad, lr, wrapped, steps>>

\* Model.load_model(name, rank) after construction
LoadModel(p, name, rank) ==
    /\ pc[p] = "ready"
    /\ IF LoadModelRaises(name, rank)
       THEN /\ last' = [op |-> "load_model", p |-> p, name |-> name,
                        rank |-> rank, raised |-> "IOError",
                        read |-> FALSE, dict |-> <<>>, assigned |-> {}]
            /\ UNCHANGED val
       ELSE /\ val' = [val EXCEPT ![p] =
                          LoadModelVals(wrapped[p], val[p], name, rank)]
            /\ last' = [op |-> "load_model", p |-> p, name |-> name,
                        rank |-> rank, raised |-> "no",
                        read |-> LoadModelReads(rank),
                        dict |-> IF LoadModelReads(rank)
                                 THEN LoadModelDict(name) ELSE <<>>,
                        assigned |-> IF LoadModelReads(rank)
                                     THEN AssignedKeys(wrapped[p], LoadModelDict(name))
                                     ELSE {}]
    /\ UNCHANGED <<procs, files, pc, reqgrad, grad, lr, training, wrapped,
                   steps>>

\* save_model, line 73: only rank == 0 writes
SaveModelWrites(rank) == rank = 0

\* Model.save_model(rank, epoch, best)
SaveModel(p, rank, epoch, best) ==
    /\ pc[p] = "ready"
    /\ files' = IF SaveModelWrites(rank)
                THEN [f \in Paths |->
                        IF f = CkptPath(LogName) \/ (best /\ f = BestPath)
                        THEN SavedRecord(p, epoch)
                        ELSE files[f]]
                ELSE files
    /\ last' = [op |-> "save_model", p |-> p, rank |-> rank, epoch |-> epoch,
                best |-> best]
    /\ UNCHANGED <<procs, pc, val, reqgrad, grad, lr, training, wrapped,
                   steps>>

\* ----------------------------------------------------------- inference
\* Model.inference(img0, img1, TTA, timestep, fast_TTA) on a network with
\* the parameters vals: the value returned.
InferenceOut(vals, img0, img1, TTA, fast_TTA) ==
    LET imgs == Cat(img0, img1, 1)
    IN  IF fast_TTA
        THEN LET imgs_ == Flip(Flip(imgs, 2), 3)
                 inputs == Cat(imgs, imgs_, 0)
                 preds == NetForward(vals, inputs).pred
             IN  DivT(Unsqueeze(AddT(preds[1], Flip(Flip(preds[2], 1), 2), 3)),
                      2, 4)
        ELSE LET pred == NetForward(vals, imgs).pred
             IN  IF ~TTA THEN pred
                 ELSE LET pred2 == NetForward(vals, Flip(Flip(imgs, 2), 3)).pred
                      IN  DivT(AddT(pred, Flip(Flip(pred2, 2), 3), 4), 2, 4)

\* hr_inference.infer(imgs) with down_scale = 1 / inv
HrInfer(vals, imgs, inv) ==
    LET imgs_down == Interpolate(imgs, 1, inv)
        fm == calculate_flow(vals, imgs_down)
        flow == MulT(Interpolate(fm.flow, inv, 1), inv, 4)
        mask == Interpolate(fm.mask, inv, 1)
    IN  Tensor(coraseWarp_and_Refine(vals, imgs, flow, mask), 4)

\* Model.hr_inference(img0, img1, TTA, down_scale, timestep, fast_TTA)
HrInferenceOut(vals, img0, img1, TTA, inv, fast_TTA) ==
    LET imgs == Cat(img0, img1, 1)
    IN  IF fast_TTA
        THEN LET imgs_ == Flip(Flip(imgs, 2), 3)
                 input == Cat(imgs, imgs_, 0)
                 preds == HrInfer(vals, input, inv)
             IN  DivT(Unsqueeze(AddT(preds[1], Flip(Flip(preds[2], 1), 2), 3)),
                      2, 4)
        ELSE IF ~TTA THEN HrInfer(vals, imgs, inv)
        ELSE DivT(AddT(HrInfer(vals, imgs, inv),
                       Flip(Flip(HrInfer(vals, Flip(Flip(imgs, 2), 3), inv), 2), 3),
                       4), 2, 4)

\* Model.inference: decorated torch.no_grad(), it reads the network only;
\* what it returns is InferenceOut of the arguments that last records.
Inference(p, img0, img1, TTA, fast_TTA) ==
    /\ pc[p] = "ready"
    /\ last' = [op |-> "inference", p |-> p, img0 |-> img0, img1 |-> img1,
                TTA |-> TTA, fast_TTA |-> fast_TTA, inv |-> 1]
    /\ UNCHANGED <<procs, files, pc, val, reqgrad, grad, lr, training, wrapped,
                   steps>>

\* Model.hr_inference: decorated torch.no_grad() as well; it returns
\* HrInferenceOut of the arguments that last records.
HrInference(p, img0, img1, TTA, inv, fast_TTA) ==
    /\ pc[p] = "ready"
    /\ last' = [op |-> "hr_inference", p |-> p, img0 |-> img0, img1 |-> img1,
                TTA |-> TTA, fast_TTA |-> fast_TTA, inv |-> inv]
    /\ UNCHANGED <<procs, files, pc, val, reqgrad, grad, lr, training, wrapped,
                   steps>>

\* -------------------------------------------------------------- update
\* a training branch that never zeroes the accumulated gradients
UpdateProgramNoZero == <<"forward", "loss", "backward", "step">>

\* lines 148-157, the statements of the training branch in their order
UpdateProgram == <<"forward", "loss", "zero_grad", "backward", "step">>

\* a backward pass that fills the gradient of every parameter
GetsGradAll(flags, b) == TRUE

\* loss.backward() fills p.grad of the parameters with requires_grad only
GetsGrad(flags, b) == flags[b]

\* loss_l1 of lines 150-153
LossL1(fwd, gt) ==
    Mean(Lap(fwd.pred, gt))
    + SumSeq([m \in DOMAIN fwd.merged |-> Mean(Lap(fwd.merged[m], gt)) \div 2])

\* One statement of the training branch on the local state st:
\* [val, grad, lr, fwd, loss].
ExecStep(st, name, flags, imgs, gt) ==
    CASE name = "forward" ->
           [st EXCEPT !.fwd = NetForward(st.val, imgs)]
      [] name = "loss" ->
           [st EXCEPT !.loss = LossL1(st.fwd, gt)]
      [] name = "zero_grad" ->
           [st EXCEPT !.grad = [b \in Branches |-> None]]
      [] name = "backward" ->
           [st EXCEPT !.grad =
               [b \in Branches |->
                   IF GetsGrad(flags, b)
                   THEN <<(IF st.grad[b] = None THEN 0 ELSE st.grad[b][1])
                          + GradOf(b, st.fwd, gt)>>
                   ELSE st.grad[b]]]
      [] name = "step" ->
           \* AdamW.step skips the parameters whose grad is None; the
           \* update direction stands in for Adam's.
           [st EXCEPT !.val =
               [b \in Branches |->
                   IF st.grad[b] # None
                   THEN st.val[b] - st.lr * st.grad[b][1]
                   ELSE st.val[b]]]

RECURSIVE RunProgram(_, _, _, _, _)
RunProgram(st, prog, flags, imgs, gt) ==
    IF prog = <<>> THEN st
    ELSE RunProgram(ExecStep(st, Head(prog), flags, imgs, gt), Tail(prog),
                    flags, imgs, gt)

\* The local state of an update call of process p with learning rate rate.
Entry(p, rate) ==
    [val |-> val[p], grad |-> grad[p], lr |-> rate, fwd |-> <<>>, loss |-> 0]

\* The statements up to and including backward, and those after it.
UpToBackward(prog) ==
    SubSeq(prog, 1, CHOOSE i \in DOMAIN prog : prog[i] = "backward")

AfterBackward(prog) ==
    SubSeq(prog, 1 + (CHOOSE i \in DOMAIN prog : prog[i] = "backward"),
           Len(prog))

\* an evaluation branch that runs the training statements
UpdateEvalOutcomeSteps(p, imgs, gt, rate) ==
    RunProgram(Entry(p, rate), UpdateProgram, reqgrad[p], imgs, gt)

\* lines 159-162: the forward pass under torch.no_grad()
UpdateEvalOutcome(p, imgs, gt, rate) ==
    [Entry(p, rate) EXCEPT !.fwd = NetForward(val[p], imgs)]

\* lines 140-141: every param_group's lr is overwritten
SetLr(p, rate) == rate

\* Model.update(imgs, gt, learning_rate, timestep, training=False); it
\* returns (pred, 0).
UpdateEval(p, imgs, gt, rate) ==
    /\ pc[p] = "ready"
    /\ \E st \in {UpdateEvalOutcome(p, imgs, gt, rate)} :
           /\ val' = [val EXCEPT ![p] = st.val]
           /\ grad' = [grad EXCEPT ![p] = st.grad]
           /\ last' = [op |-> "update", training |-> FALSE, p |-> p,
                       lr |-> rate, gt |-> gt, loss |-> 0,
                       trace |-> <<"lr", "eval", "forward">>]
    /\ lr' = [lr EXCEPT ![p] = SetLr(p, rate)]
    /\ training' = [training EXCEPT ![p] = FALSE]
    /\ UNCHANGED <<procs, files, pc, reqgrad, wrapped, steps>>

\* DDP's gradient all-reduce, which runs as loss.backward() ends: the mean
\* over the processes of the run (ranks 0..N-1)
AllReduce(local, p, b) ==
    IF local[p][b] = None THEN None
    ELSE <<SumSeq([q \in 1 .. Cardinality(procs) |-> local[q - 1][b][1]])
           \div Cardinality(procs)>>

\* p.grad as optimG.step() finds it
SyncedGrad(local, p) ==
    [b \in Branches |->
        IF wrapped[p] THEN AllReduce(local, p, b) ELSE local[p][b]]

\* The statements of one training call, in their order.
TrainTrace(p) ==
    <<"lr", "train">> \o UpToBackward(UpdateProgram)
    \o (IF wrapped[p] THEN <<"allreduce">> ELSE <<>>)
    \o AfterBackward(UpdateProgram)

\* Model.update(imgs, gt, learning_rate, timestep, training=True), called
\* by every process of the run with its own batch and learning rate.  On a
\* DDP-wrapped network loss.backward() returns only when all processes
\* have contributed their gradients, so the calls of a distributed run
\* complete together; a run without distribution has the one process.
UpdateTrain(imgs, calls) ==
    /\ \A p \in procs : pc[p] = "ready" /\ steps[p] < MaxSteps
    /\ \E st1 \in {[p \in procs |->
                     RunProgram(Entry(p, calls[p].lr),
                                UpToBackward(UpdateProgram), reqgrad[p],
                                imgs, calls[p].gt)]} :
       \E st2 \in {[p \in procs |->
                     RunProgram([st1[p] EXCEPT !.grad =
                                    SyncedGrad([q \in procs |-> st1[q].grad], p)],
                                AfterBackward(UpdateProgram), reqgrad[p],
                                imgs, calls[p].gt)]} :
           /\ val' = [p \in procs |-> st2[p].val]
           /\ grad' = [p \in procs |-> st2[p].grad]
           /\ last' = [op |-> "update", training |-> TRUE, calls |-> calls,
                       loss |-> [p \in procs |-> st2[p].loss],
                       trace |-> [p \in procs |-> TrainTrace(p)]]
    /\ lr' = [p \in procs |-> SetLr(p, calls[p].lr)]
    /\ training' = [p \in procs |-> TRUE]
    /\ steps' = [p \in procs |-> steps[p] + 1]
    /\ UNCHANGED <<procs, files, pc, reqgrad, wrapped>>

\* --------------------------------------------------------------- inputs
\* Two sample frames, 1 x 2 x 2 (C x H x W).
Frames ==
    { << << <<1, 0>>, <<0, 0>> >> >>,
      << << <<0, 1>>, <<2, 3>> >> >> }

\* Batches of B frames, B x 1 x 2 x 2.
Batches(B) == [1 .. B -> Frames]

\* Ground-truth batches for update: below and above every prediction.
GtLow == << << << <<-100, -100>>, <<-100, -100>> >> >> >>

GtHigh == << << << <<100, 100>>, <<100, 100>> >> >> >>

GtBatches == {GtLow, GtHigh}

\* The frame pair batch given to update, 1 x 2 x 2 x 2.
ImgsBatch ==
    << << << <<1, 0>>, <<0, 0>> >>, << <<0, 1>>, <<2, 3>> >> >> >>

\* The two frames of it, each 1 x 1 x 2 x 2.
Img0Batch == << << << <<1, 0>>, <<0, 0>> >> >> >>

Img1Batch == << << << <<0, 1>>, <<2, 3>> >> >> >>

\* The rank a caller passes to load_model and save_model: its own
\* local_rank, or none (the default, rank=0).
RankArgs(p) == {p, 0}

\* Learning rates given to update, in units of 1e-4.
Rates == {0, 1}

\* 1 / down_scale
InvScales == {1, 2}

\* ------------------------------------------------------- the life cycle
\* Every operation of Model, on every process of a run, in any order.
Next ==
    \/ \E p \in procs : Construct(p)
    \/ DDPWrap
    \/ \E p \in procs, mode \in BOOLEAN : SetMode(p, mode)
    \/ \E p \in procs : \E name \in {"", "ours-local"}, rank \in RankArgs(p) :
          LoadModel(p, name, rank)
    \/ \E p \in procs : \E rank \in RankArgs(p), epoch \in Epochs,
                           best \in BOOLEAN :
          SaveModel(p, rank, epoch, best)
    \/ \E p \in procs : UpdateEval(p, ImgsBatch, GtLow, 1)
    \/ UpdateTrain(ImgsBatch, [p \in procs |-> [gt |-> GtLow, lr |-> 1]])
    \/ \E p \in procs, TTA \in BOOLEAN, fast \in BOOLEAN :
          Inference(p, Img0Batch, Img1Batch, TTA, fast)
    \/ \E p \in procs, TTA \in BOOLEAN, fast \in BOOLEAN :
          HrInference(p, Img0Batch, Img1Batch, TTA, 2, fast)

Spec == Init /\ [][Next]_vars

\* --------------------------------------------------- constructed models
\* The states in which construction has just ended on every process of a
\* run whose two pretrained checkpoints exist.
InitBuilt ==
    /\ procs \in {{NoRank}, DistRanks}
    /\ files = [f \in Paths |->
                  IF f = GmflowPath THEN GmflowFile
                  ELSE IF f = CkptPath("ours-local") THEN LocalFile
                  ELSE NoFile]
    /\ pc = [p \in procs |-> "ready"]
    /\ val = [p \in procs |->
                LET own == BuiltVals(p, [b \in Branches |-> InitValue(p)])
                    first == BuiltVals(0, [b \in Branches |-> InitValue(0)])
                IN  IF procs = {NoRank} THEN own ELSE first]
    /\ reqgrad = [p \in procs |-> BuiltFlags([b \in Branches |-> TRUE])]
    /\ grad = [p \in procs |-> [b \in Branches |-> None]]
    /\ lr = [p \in procs |-> InitLr]
    /\ training = [p \in procs |-> TRUE]
    /\ wrapped = [p \in procs |-> procs # {NoRank}]
    /\ steps = [p \in procs |-> 0]
    /\ last = IF procs = {NoRank}
              THEN [op |-> "init", p |-> NoRank, raised |-> "no"]
              ELSE [op |-> "DDP", p |-> 0]

\* ------------------------------------------------------------- training
\* Update calls on constructed models: evaluation calls of one process,
\* and training calls with a batch per process and the learning rate of
\* the schedule, the same on every process.
NextTrain ==
    \/ \E p \in procs, rate \in Rates : UpdateEval(p, ImgsBatch, GtLow, rate)
    \/ \E gts \in [procs -> GtBatches], rate \in Rates :
          UpdateTrain(ImgsBatch, [p \in procs |-> [gt |-> gts[p], lr |-> rate]])

SpecTrain == InitBuilt /\ [][NextTrain]_vars

\* ------------------------------------------------------------ inference
\* Inference calls with every frame pair batch, on a constructed model.
NextTTA ==
    \/ \E p \in procs, B \in 1 .. MaxBatch, TTA \in BOOLEAN, fast \in BOOLEAN :
          \E img0 \in Batches(B), img1 \in Batches(B) :
             Inference(p, img0, img1, TTA, fast)
    \/ \E p \in procs, B \in 1 .. MaxBatch, TTA \in BOOLEAN, fast \in BOOLEAN,
          inv \in InvScales :
          \E img0 \in Batches(B), img1 \in Batches(B) :
             HrInference(p, img0, img1, TTA, inv, fast)

\* a run without distribution
InitTTA == InitBuilt /\ procs = {NoRank}

SpecTTA == InitTTA /\ [][NextTTA]_vars

\* ------------------------------------------------------ checkpoint keys
\* Keys a checkpoint written elsewhere may hold.
RawKeys ==
    { <<"module.", "foo.", "weight">>, <<"bar.", "attn_mask">>, <<"baz">>,
      <<"module.", "rest.", "weight">>, <<"module.", "block.", "HW">>,
      <<"module.", "sub_", "module.", "w">> }

RawValues == {1, 2}

\* The dicts of up to MaxRawLen entries with distinct keys from RawKeys.
RawDicts ==
    UNION {{d \in [1 .. n -> RawKeys \X RawValues] :
               \A i, j \in 1 .. n : i # j => d[i][1] # d[j][1]} :
           n \in 0 .. MaxRawLen}

\* A constructed model beside a checkpoint log/LOGNAME/ckpt/LOGNAME.pkl of
\* any content.
InitConvert ==
    /\ procs = {NoRank}
    /\ \E d \in RawDicts :
          files = [f \in Paths |->
                     IF f = GmflowPath THEN GmflowFile
                     ELSE IF f = CkptPath("ours-local") THEN LocalFile
                     ELSE IF f = CkptPath(LogName)
                     THEN [exists |-> TRUE, epoch |-> 0, model |-> d,
                           optimizer |-> InitLr]
                     ELSE NoFile]
    /\ pc = [p \in procs |-> "ready"]
    /\ val = [p \in procs |->
                BuiltVals(p, [b \in Branches |-> InitValue(p)])]
    /\ reqgrad = [p \in procs |-> BuiltFlags([b \in Branches |-> TRUE])]
    /\ grad = [p \in procs |-> [b \in Branches |-> None]]
    /\ lr = [p \in procs |-> InitLr]
    /\ training = [p \in procs |-> TRUE]
    /\ wrapped = [p \in procs |-> FALSE]
    /\ steps = [p \in procs |-> 0]
    /\ last = [op |-> "init", p |-> NoRank, raised |-> "no"]

NextConvert ==
    \E p \in procs : \E name \in {"", "ours-local"}, rank \in RankArgs(p) :
       LoadModel(p, name, rank)

SpecConvert == InitConvert /\ [][NextConvert]_vars

\* ------------------------------------------------------------ properties
\* The pretrained checkpoints' paths and what they hold for a branch.
LocalPath == CkptPath("ours-local")

PretrainedLocal(b) ==
    DictGet(files[LocalPath].model, <<"module.">> \o ParamName[b])

\* C1: on every constructed Model every parameter of the pretrained
\* branches gmflow, feature_bone, block and unet has its trainable flag
\* false, and no operation (load_model, save_model, update, train, eval,
\* inference, hr_inference) sets a false flag back to true.
C1_FrozenStayFrozen ==
    /\ [](\A p \in procs : pc[p] = "ready" =>
             \A b \in {"gmflow", "feature_bone", "block", "unet"} :
                ~reqgrad[p][b])
    /\ [][\A p \in procs : pc[p] = "ready" =>
             \A b \in Branches : ~reqgrad[p][b] => ~reqgrad'[p][b]]_vars

\* C1 witness: a constructed Model has trained and has then loaded a
\* checkpoint it read.
C1_Witness ==
    /\ last.op = "load_model" /\ last.read /\ last.raised = "no"
    /\ last.assigned # {}
    /\ steps[last.p] >= 1
    /\ ~reqgrad[last.p]["unet"]

\* C2: on a constructed Model the parameters of gmflow, feature_bone,
\* block and unet are non-trainable and every other parameter is
\* trainable; an update call with training=True leaves the value of every
\* non-trainable parameter unchanged.
C2_UpdateChangesTrainableOnly ==
    /\ [](\A p \in procs : pc[p] = "ready" =>
             \A b \in Branches :
                reqgrad[p][b] <=>
                   b \notin {"gmflow", "feature_bone", "block", "unet"})
    /\ [][(last'.op = "update" /\ last'.training) =>
             \A p \in procs : \A b \in Branches :
                ~reqgrad[p][b] => val'[p][b] = val[p][b]]_vars

\* C2 witness: one training update with a non-zero learning rate has moved
\* a trainable parameter and the pretrained values are in place.
C2_Witness ==
    /\ last.op = "update" /\ last.training
    /\ \E p \in procs :
          /\ steps[p] = 1 /\ last.calls[p].lr # 0
          /\ val[p]["rest"] # InitValue(IF wrapped[p] THEN 0 ELSE p)
          /\ val[p]["unet"] = PretrainedLocal("unet")
          /\ grad[p]["unet"] = None /\ grad[p]["rest"] # None

\* C3: a load_model of the record save_model wrote under the same name
\* assigns a non-empty set of keys and leaves every trainable parameter
\* with the value the record holds for it.
C3_SaveLoadRoundTrip ==
    (/\ last.op = "load_model" /\ last.name = "" /\ last.read
     /\ last.raised = "no")
    => /\ last.assigned # {}
       /\ \A b \in Branches :
             reqgrad[last.p][b] =>
                val[last.p][b] =
                   DictGet(files[CkptPath(LogName)].model,
                           StateDictKey(wrapped[last.p], b))

\* C4: save_model writes the checkpoint when it is called with rank 0 or
\* with rank -1 (a process without distribution), and leaves storage
\* unchanged for every other rank.
C4_SaveGate ==
    [][(last'.op = "save_model") =>
          IF last'.rank \in {0, NoRank}
          THEN files'[CkptPath(LogName)] = SavedRecord(last'.p, last'.epoch)
          ELSE files' = files]_vars

\* C5: with fast_TTA=True inference and hr_inference return the prediction
\* values they return with TTA=True, for every batch of frame pairs.
C5_FastEqualsTTA ==
    (last.op \in {"inference", "hr_inference"} /\ last.fast_TTA) =>
       LET vals == val[last.p]
           fast == IF last.op = "inference"
                   THEN InferenceOut(vals, last.img0, last.img1, last.TTA, TRUE)
                   ELSE HrInferenceOut(vals, last.img0, last.img1, last.TTA,
                                       last.inv, TRUE)
           tta  == IF last.op = "inference"
                   THEN InferenceOut(vals, last.img0, last.img1, TRUE, FALSE)
                   ELSE HrInferenceOut(vals, last.img0, last.img1, TRUE,
                                       last.inv, FALSE)
       IN  Flatten(fast, 4) = Flatten(tta, 4)

\* C6: update with training=False, inference and hr_inference leave every
\* parameter value, every trainable flag and every gradient buffer
\* unchanged and take no optimizer step, in train and in eval mode alike;
\* update with training=False returns loss 0.
C6_NonTrainingFrame ==
    [][(\/ last'.op \in {"inference", "hr_inference"}
        \/ (last'.op = "update" /\ ~last'.training))
       => /\ val' = val /\ reqgrad' = reqgrad /\ grad' = grad
          /\ steps' = steps
          /\ last'.op = "update" => last'.loss = 0]_vars

\* C6 witness: update with training=False has run on a Model that earlier
\* calls trained and switched to train mode.
C6_Witness ==
    /\ last.op = "update" /\ ~last.training /\ last.loss = 0
    /\ steps[last.p] >= 1 /\ grad[last.p]["rest"] # None
    /\ ~training[last.p]

\* C7: the dict load_model passes on holds exactly the entries of the file
\* whose key contains "module." and neither "attn_mask" nor "HW", each
\* under its key with the "module." prefix stripped, its value unchanged.
C7_PrefixStripped(k) == IF Head(k) = "module." THEN Tail(k) ELSE k

C7_ConvertFilter ==
    (last.op = "load_model" /\ last.read /\ last.raised = "no") =>
       LET raw == files[CkptPath(LoadModelName(last.name))].model
       IN  {<<k, last.dict[k]>> : k \in DOMAIN last.dict}
           = {<<C7_PrefixStripped(raw[i][1]), raw[i][2]>> :
                 i \in {j \in DOMAIN raw :
                          /\ Contains(raw[j][1], "module.")
                          /\ ~Contains(raw[j][1], "attn_mask")
                          /\ ~Contains(raw[j][1], "HW")}}

\* C8 as the claim states it: while one of the two pretrained checkpoint
\* files is absent, construction gets past its loads on no process.
C8_FailsInEveryProcess ==
    (~files[GmflowPath].exists \/ ~files[LocalPath].exists) =>
       \A p \in procs : pc[p] \in {"new", "failed"}

\* C8, amended: construction fails (with an IOError) on a process exactly
\* when the gmflow file is absent, or the local-branch file is absent and
\* the process has local_rank <= 0; a process with local_rank > 0 does not
\* read the local-branch file and goes on to the DDP wrap.  While one of
\* the two files is absent no process has a constructed Model.
C8_FailsWhereRead ==
    \A p \in procs :
       /\ pc[p] = "failed" <=>
             (/\ pc[p] # "new"
              /\ \/ ~files[GmflowPath].exists
                 \/ ~files[LocalPath].exists /\ p <= 0)
       /\ (last.op = "init" /\ last.p = p) =>
             (last.raised = "IOError" <=> pc[p] = "failed")
       /\ (~files[GmflowPath].exists \/ ~files[LocalPath].exists) =>
             pc[p] # "ready"

\* C8 witness: the local-branch file is absent, rank 0 has failed and a
\* process with local_rank > 0 waits in the DDP constructor.
C8_Witness ==
    /\ ~files[LocalPath].exists
    /\ \E p \in procs : p > 0 /\ pc[p] = "wrapping" /\ pc[0] = "failed"

\* C9: every update call sets the learning rate to the given value and the
\* mode to the training flag; with training=True it runs forward, loss,
\* zero_grad, backward (under DDP ending in the gradient all-reduce) and
\* one optimizer step in this order, and the step applies the gradient of
\* the current call only: the mean over the processes under DDP.
C9_CallGrad(p, b) ==
    GradOf(b, NetForward(val[p], ImgsBatch), last'.calls[p].gt)

C9_StepGrad(p, b) ==
    IF wrapped[p]
    THEN SumSeq([q \in 1 .. Cardinality(procs) |-> C9_CallGrad(q - 1, b)])
         \div Cardinality(procs)
    ELSE C9_CallGrad(p, b)

C10_WrapAndBroadcast ==
    /\ \A p \in procs :
          /\ pc[p] = "ready" => (wrapped[p] <=> p # -1)
          /\ pc[p] # "ready" => ~wrapped[p]
    /\ last.op = "DDP" =>
          \A p \in procs :
             /\ pc[p] = "ready" /\ val[p] = val[0]
             /\ \A b \in {"feature_bone", "block", "unet"} :
                   val[p][b] = PretrainedLocal(b)

\* C10 witness: the DDP constructor has returned on a process with
\* local_rank > 0, which never read the local-branch checkpoint.
C10_Witness ==
    /\ last.op = "DDP"
    /\ \E p \in procs : p > 0 /\ pc[p] = "ready" /\ wrapped[p]
                        /\ ~LoadModelReads(p)

====
